---- MODULE Spec2Model ----
(***************************************************************************)
(* Hephaestus Forge: the audio engine (pkg/audio), its processing chain    *)
(* and its parameter store, as state machines.                             *)
(*                                                                         *)
(* Numbers.  float32/float64 values are fixed-point integers: a value v is *)
(* the integer v * One.  A product or quotient is rounded to that grid     *)
(* (toward zero), which stands for the rounding of the floating-point      *)
(* operation.  Angles are counted in units of 2*pi/SampleRate, so that the *)
(* code's phase increment 2*pi*f/SampleRate is the integer f for a         *)
(* frequency of f Hz.                                                      *)
(***************************************************************************)
EXTENDS Integers, Sequences, FiniteSets, TLC

VARIABLES
    isRunning,      \* AudioEngine.isRunning (int32 used as an atomic bool)
    stream,         \* AudioEngine.stream: 0 is nil, n > 0 the n-th stream opened
    pa,             \* the PortAudio driver as the engine's calls leave it
    oscillators,    \* AudioEngine.oscillators
    filters,        \* AudioEngine.filters
    effects,        \* AudioEngine.effects
    out,            \* the output buffers of the last callback, one per channel
    lastCall,       \* the last call of Start, Stop or processAudio and the error it returned
    callbacks,      \* the callbacks that processed the chain so far
    params,         \* ParameterManager.params
    atomicParams,   \* ParameterManager.atomicParams
    smoothing,      \* ParameterManager.smoothing
    mu,             \* ParameterManager.mu
    smoothingMu,    \* ParameterManager.smoothingMu
    pc,             \* where each thread stands in the store method it is running
    local,          \* each thread's call: the method, its arguments, locals and result
    calls,          \* the store calls each thread has made
    fed,            \* the samples handed so far to a chain element driven on its own
    heard           \* the samples that element has returned so far

vars == <<isRunning, stream, pa, oscillators, filters, effects, out, lastCall,
          callbacks, params, atomicParams, smoothing, mu, smoothingMu, pc, local,
          calls, fed, heard>>

engineVars == <<isRunning, stream, pa, oscillators, filters, effects, out>>
storeVars == <<params, atomicParams, smoothing>>
threadVars == <<mu, smoothingMu, pc, local, calls>>
benchVars == <<fed, heard>>

(***************************************************************************)
(* Program constants                                                       *)
(***************************************************************************)
SampleRate == 44100
FrameSize == 512
Channels == 2

(***************************************************************************)
(* Bounds of the exploration                                               *)
(***************************************************************************)
MaxStarts == 2
MaxStops == 2
MaxCallbacks == 1
MaxConfigs == 1
MaxControlCalls == 3
MaxAudioCalls == 2

(***************************************************************************)
(* Fixed-point arithmetic                                                  *)
(***************************************************************************)
One == 1000

Abs(x) == IF x < 0 THEN -x ELSE x

\* F applied to the value of v, v being evaluated once (a local variable of
\* the code: computed where it is assigned, then only read).
With(v, F(_)) == CHOOSE y \in {F(x) : x \in {v}} : TRUE

\* Go's integer conversion and the rounding of a quotient: toward zero.
TruncDiv(a, b) == IF a >= 0 THEN a \div b ELSE -((-a) \div b)

Mul(a, b) == TruncDiv(a * b, One)

\* math.Floor and math.Ceil of the quotient a / b, b > 0.
FloorDiv(a, b) == a \div b
CeilDiv(a, b) == -((-a) \div b)

TwoPi == SampleRate
Pi == TwoPi \div 2

\* math.Sin of an angle, by Bhaskara's rational approximation on a half turn
\* (exact at 0, pi/6, pi/2, 5pi/6 and pi; within 0.002 elsewhere).
HalfSin(p) ==
    LET q == (p * (Pi - p)) \div 2500
        d == 5 * ((Pi \div 50) * (Pi \div 50)) - 4 * q
    IN ((16 * q) * 100) \div (d \div 10)

Sin(phase) ==
    LET p == phase % TwoPi
    IN IF p < Pi THEN HalfSin(p) ELSE -HalfSin(p - Pi)

Cos(phase) == Sin(phase + Pi \div 2)

(***************************************************************************)
(* Parameter store: the map as the audio chain reads it                    *)
(***************************************************************************)
\* The threads that use the store: the control (UI) thread writes, the audio
\* thread reads.
Threads == {"control", "audio"}

\* sync.RWMutex: the thread holding the write lock, the threads holding read
\* locks, and the threads waiting in Lock().
NewRWMutex == [writer |-> "none", readers |-> {}, waiting |-> {}]

\* sync.RWMutex.RLock returns only while no writer holds or awaits the lock.
CanRLock(m) == m.writer = "none" /\ m.waiting = {}
RLock(m, t) == [m EXCEPT !.readers = @ \cup {t}]
RUnlock(m, t) == [m EXCEPT !.readers = @ \ {t}]

\* sync.RWMutex.Lock announces the writer, which shuts out new readers, and
\* returns once the readers have left and no other writer holds the lock.
Announce(m, t) == [m EXCEPT !.waiting = @ \cup {t}]
CanLock(m) == m.writer = "none" /\ m.readers = {}
Lock(m, t) == [m EXCEPT !.writer = t, !.waiting = @ \ {t}]
Unlock(m) == [m EXCEPT !.writer = "none"]

\* A call of a store method by a thread: the method, its key, its argument
\* (a value, a rate, a default, or the updates of a batch), what is left of
\* its loop, what it returns (val, ok), and `during`: the number of the
\* control thread's BatchSet that was inside its critical section when the
\* value returned was read (0 if none was).
NewCall(op, key, arg) ==
    [op |-> op, key |-> key, arg |-> arg, rest |-> <<>>, val |-> 0, ok |-> FALSE,
     during |-> 0]

\* A thread that is in no store method.
Idle == NewCall("none", "", 0)

\* A Go map: a function whose domain is the set of keys present.
EmptyMap == [k \in {} |-> 0]

MapPut(m, key, value) ==
    [k \in DOMAIN m \cup {key} |-> IF k = key THEN value ELSE m[k]]

\* NewParameterManager: three empty maps.
NewParameterManager ==
    [params |-> EmptyMap, atomicParams |-> EmptyMap, smoothing |-> EmptyMap]

\* val, exists := pm.params[key]
Get(pm, key) ==
    IF key \in DOMAIN pm THEN [val |-> pm[key], exists |-> TRUE]
                         ELSE [val |-> 0, exists |-> FALSE]

(***************************************************************************)
(* Oscillator (OscNoise and its process-wide generator are not modelled)   *)
(***************************************************************************)
OscillatorTypes == {"Sine", "Saw", "Square", "Triangle"}

PhaseInc(freq) == (TwoPi \div SampleRate) * freq

NewOscillator(oscType, freq, amp) ==
    [Type |-> oscType, Frequency |-> freq, Amplitude |-> amp, Phase |-> 0,
     phaseInc |-> PhaseInc(freq)]

\* The waveform of one sample, from the phase.
Waveform(oscType, phase) ==
    CASE oscType = "Sine" -> Sin(phase)
      [] oscType = "Saw" -> TruncDiv(2 * One * phase, TwoPi) - One
      [] oscType = "Square" -> IF phase < Pi THEN One ELSE -One
      [] oscType = "Triangle" ->
            IF phase < Pi THEN -One + TruncDiv(2 * One * phase, Pi)
                          ELSE 3 * One - TruncDiv(2 * One * phase, Pi)

\* The phase after one sample: advanced, then reduced by one turn if it
\* reached a full turn.
AdvancePhase(phase, inc) ==
    IF phase + inc >= TwoPi THEN phase + inc - TwoPi ELSE phase + inc

\* One sample of Oscillator.Generate: the sample written and the phase advanced.
GenerateSample(o) ==
    [osc |-> [o EXCEPT !.Phase = AdvancePhase(o.Phase, o.phaseInc)],
     sample |-> Mul(Waveform(o.Type, o.Phase), o.Amplitude)]

\* The loop of Generate, filling the buffer up to n samples in order (the
\* samples still to come are taken as a first and a second half).
RECURSIVE GenerateLoop(_, _, _)
GenerateLoop(o, n, buffer) ==
    IF Len(buffer) >= n THEN [osc |-> o, buffer |-> buffer]
    ELSE IF Len(buffer) + 1 = n
    THEN With(GenerateSample(o),
              LAMBDA r : [osc |-> r.osc, buffer |-> Append(buffer, r.sample)])
    ELSE With(GenerateLoop(o, Len(buffer) + (n - Len(buffer)) \div 2, buffer),
              LAMBDA a : GenerateLoop(a.osc, n, a.buffer))

\* Oscillator.Generate on a buffer of n samples: the oscillator afterwards
\* and the buffer it filled.
Generate(o, n, pm) ==
    LET f == Get(pm, "osc1_frequency")
    IN With(IF f.exists
            THEN [o EXCEPT !.Frequency = f.val, !.phaseInc = PhaseInc(f.val)]
            ELSE o,
            LAMBDA o1 : GenerateLoop(o1, n, <<>>))

(***************************************************************************)
(* Filter (biquad)                                                         *)
(***************************************************************************)
FilterTypes == {"LowPass", "HighPass", "BandPass", "Notch"}

\* Filter.updateCoefficients: the six coefficients from Type, Frequency and
\* Resonance, then normalised by a0 (a0 itself keeps its value, as in the code).
\* The coefficients before normalisation, from sin, cos and alpha.
RawCoefficients(type, sin, cos, alpha) ==
    [b |-> CASE type = "LowPass" ->
                  <<TruncDiv(One - cos, 2), One - cos, TruncDiv(One - cos, 2)>>
             [] type = "HighPass" ->
                  <<TruncDiv(One + cos, 2), -(One + cos), TruncDiv(One + cos, 2)>>
             [] type = "BandPass" -> <<alpha, 0, -alpha>>
             [] type = "Notch" -> <<One, -2 * cos, One>>,
     a |-> <<One + alpha, -2 * cos, One - alpha>>]

\* The resonance kept in [0.1, 10].
ClampQ(q) ==
    IF q < One \div 10 THEN One \div 10 ELSE IF q > 10 * One THEN 10 * One ELSE q

updateCoefficients(f) ==
    With(<<Sin(PhaseInc(f.Frequency)), Cos(PhaseInc(f.Frequency))>>, LAMBDA sc :
    With(RawCoefficients(f.Type, sc[1], sc[2],
                         TruncDiv(sc[1] * One, 2 * ClampQ(f.Resonance))), LAMBDA c :
        [f EXCEPT !.a0 = c.a[1],
                  !.a1 = TruncDiv(c.a[2] * One, c.a[1]),
                  !.a2 = TruncDiv(c.a[3] * One, c.a[1]),
                  !.b0 = TruncDiv(c.b[1] * One, c.a[1]),
                  !.b1 = TruncDiv(c.b[2] * One, c.a[1]),
                  !.b2 = TruncDiv(c.b[3] * One, c.a[1])]))

NewFilter(type, freq, resonance) ==
    updateCoefficients(
        [Type |-> type, Frequency |-> freq, Resonance |-> resonance,
         a0 |-> 0, a1 |-> 0, a2 |-> 0, b0 |-> 0, b1 |-> 0, b2 |-> 0,
         x1 |-> 0, x2 |-> 0, y1 |-> 0, y2 |-> 0])

NewLowPassFilter(freq, resonance) == NewFilter("LowPass", freq, resonance)
NewHighPassFilter(freq, resonance) == NewFilter("HighPass", freq, resonance)

Clamp(y) == IF y > One THEN One ELSE IF y < -One THEN -One ELSE y

\* One sample of Filter.Process: the difference equation, the history shift
\* (y1 takes the value before clamping), then the clamp of the output.
FilterSample(f, x0) ==
    With(TruncDiv(f.b0 * x0 + f.b1 * f.x1 + f.b2 * f.x2
                  - f.a1 * f.y1 - f.a2 * f.y2, One), LAMBDA y0 :
        [filter |-> [f EXCEPT !.x2 = f.x1, !.x1 = x0, !.y2 = f.y1, !.y1 = y0],
         sample |-> Clamp(y0)])

\* The loop of Process over the samples i..j in order (taken as a first and a
\* second half).
RECURSIVE FilterLoop(_, _, _, _)
FilterLoop(f, buffer, i, j) ==
    IF i > j THEN [filter |-> f, buffer |-> buffer]
    ELSE IF i = j
    THEN With(FilterSample(f, buffer[i]), LAMBDA r :
              [filter |-> r.filter, buffer |-> [buffer EXCEPT ![i] = r.sample]])
    ELSE With(FilterLoop(f, buffer, i, (i + j) \div 2), LAMBDA a :
              FilterLoop(a.filter, a.buffer, (i + j) \div 2 + 1, j))

\* Filter.Process: the store is consulted once per buffer.
FilterProcess(f, buffer, pm) ==
    LET nf == Get(pm, "filter_frequency")
        nr == Get(pm, "filter_resonance")
    IN With(IF nf.exists THEN updateCoefficients([f EXCEPT !.Frequency = nf.val])
            ELSE f, LAMBDA f1 :
       With(IF nr.exists THEN updateCoefficients([f1 EXCEPT !.Resonance = nr.val])
            ELSE f1, LAMBDA f2 :
            FilterLoop(f2, buffer, 1, Len(buffer))))


(***************************************************************************)
(* Effect.  The delay line is kept sparsely: delayLine maps the indices    *)
(* that hold a non-zero sample to it, lineLen is len(e.delayLine).         *)
(***************************************************************************)
EffectTypes == {"Delay", "Reverb", "Distortion", "Chorus", "BitCrusher"}

ParameterNames ==
    {"time", "feedback", "drive", "level", "rate", "depth", "delay", "bits",
     "sampleRate"}

EmptyLine == [i \in {} |-> 0]

LineAt(line, i) == IF i \in DOMAIN line THEN line[i] ELSE 0

LineWrite(line, i, v) ==
    IF v = 0 THEN [j \in DOMAIN line \ {i} |-> line[j]]
    ELSE [j \in DOMAIN line \cup {i} |-> IF j = i THEN v ELSE line[j]]

\* The defaults NewEffect sets for each type (a key the map lacks reads 0).
DefaultParameters(effectType) ==
    [name \in ParameterNames |->
        CASE effectType = "Delay" /\ name = "time" -> One \div 4
          [] effectType = "Delay" /\ name = "feedback" -> (3 * One) \div 10
          [] effectType = "Distortion" /\ name = "drive" -> 5 * One
          [] effectType = "Distortion" /\ name = "level" -> (7 * One) \div 10
          [] effectType = "Chorus" /\ name = "rate" -> One \div 2
          [] effectType = "Chorus" /\ name = "depth" -> (3 * One) \div 10
          [] effectType = "Chorus" /\ name = "delay" -> (2 * One) \div 100
          [] effectType = "BitCrusher" /\ name = "bits" -> 8 * One
          [] effectType = "BitCrusher" /\ name = "sampleRate" -> One \div 2
          [] OTHER -> 0]

NewEffect(effectType) ==
    [Type |-> effectType, Mix |-> One \div 2,
     Parameters |-> DefaultParameters(effectType),
     delayLine |-> EmptyLine,
     lineLen |-> CASE effectType = "Delay" -> SampleRate
                   [] effectType = "Chorus" -> SampleRate \div 10
                   [] OTHER -> 0,
     delayIndex |-> 0, lfoPhase |-> 0, sampleHold |-> 0, holdCount |-> 0]

\* dry*(1-mix) + wet*mix
MixDryWet(e, dry, wet) == Mul(dry, One - e.Mix) + Mul(wet, e.Mix)

\* int(time * SampleRate), kept below the line's length.
DelaySamples(e) ==
    LET d == TruncDiv(e.Parameters["time"] * SampleRate, One)
    IN IF d >= e.lineLen THEN e.lineLen - 1 ELSE d

\* One sample of Effect.processDelay.
DelaySample(e, x, delaySamples) ==
    LET readIndex == (e.delayIndex - delaySamples + e.lineLen) % e.lineLen
    IN With(LineAt(e.delayLine, readIndex), LAMBDA delayed :
        [effect |-> [e EXCEPT
                       !.delayLine = LineWrite(e.delayLine, e.delayIndex,
                                               x + Mul(delayed, e.Parameters["feedback"])),
                       !.delayIndex = (e.delayIndex + 1) % e.lineLen],
         sample |-> MixDryWet(e, x, delayed)])

\* math.Tanh, by its Pade approximant, saturating beyond 3.
Tanh(x) ==
    IF x >= 3 * One THEN One
    ELSE IF x <= -3 * One THEN -One
    ELSE TruncDiv(x * (27 * One + Mul(x, x)), 27 * One + 9 * Mul(x, x))

\* One sample of Effect.processDistortion.
DistortionSample(e, x) ==
    [effect |-> e,
     sample |-> MixDryWet(e, x, Mul(Tanh(Mul(x, e.Parameters["drive"])),
                                    e.Parameters["level"]))]

\* The LFO phase counts units of 2*pi/(SampleRate*One), so that the code's
\* increment 2*pi*rate/SampleRate is the fixed-point rate itself.
LfoTwoPi == TwoPi * One

\* lfo := math.Sin(e.lfoPhase) * depth
ChorusLfo(e) == Mul(Sin(e.lfoPhase \div One), e.Parameters["depth"])

\* delaySamples := (baseDelay + baseDelay*lfo) * SampleRate, in thousandths of
\* a sample; the delay time keeps the digits of the product baseDelay*lfo.
ChorusDelay(e) ==
    TruncDiv((e.Parameters["delay"] * One + e.Parameters["delay"] * ChorusLfo(e))
                * (SampleRate \div 100), 10)

\* One sample of Effect.processChorus.
ChorusSample(e, x) ==
    With(e.lfoPhase + PhaseInc(e.Parameters["rate"]), LAMBDA p1 :
    With(ChorusDelay(e), LAMBDA delaySamples :
    With(TruncDiv(delaySamples, One), LAMBDA delaySamplesInt :
        LET fraction == delaySamples - delaySamplesInt * One
            e1 == [e EXCEPT !.lfoPhase = IF p1 >= LfoTwoPi THEN p1 - LfoTwoPi ELSE p1]
            readIndex1 == (e.delayIndex - delaySamplesInt + e.lineLen) % e.lineLen
            readIndex2 == (readIndex1 - 1 + e.lineLen) % e.lineLen
            delayed == Mul(LineAt(e.delayLine, readIndex1), One - fraction)
                       + Mul(LineAt(e.delayLine, readIndex2), fraction)
        IN IF delaySamplesInt < e.lineLen - 1
           THEN [effect |-> [e1 EXCEPT
                               !.delayLine = LineWrite(e.delayLine, e.delayIndex, x),
                               !.delayIndex = (e.delayIndex + 1) % e.lineLen],
                 sample |-> MixDryWet(e, x, delayed)]
           ELSE [effect |-> e1, sample |-> x])))

RECURSIVE Pow2(_)
Pow2(n) == IF n <= 0 THEN 1 ELSE 2 * Pow2(n - 1)

\* math.Pow(2, bits) for a whole number of bits.
Levels(e) == Pow2(e.Parameters["bits"] \div One)

\* int(1.0 / sampleRateReduction)
HoldPeriod(e) == TruncDiv(One, e.Parameters["sampleRate"])

\* floor(sample/stepSize)*stepSize for a positive sample, ceil otherwise,
\* with stepSize = 2/levels.
Quantize(sample, levels) ==
    LET k == IF sample > 0 THEN FloorDiv(sample * levels, 2 * One)
             ELSE CeilDiv(sample * levels, 2 * One)
    IN TruncDiv(k * 2 * One, levels)

\* One sample of Effect.processBitCrusher.
BitCrusherSample(e, x) ==
    LET refresh == e.holdCount = 0
        hold == IF refresh THEN x ELSE e.sampleHold
        count == (IF refresh THEN HoldPeriod(e) ELSE e.holdCount) - 1
    IN [effect |-> [e EXCEPT !.sampleHold = hold, !.holdCount = count],
        sample |-> MixDryWet(e, x, Quantize(hold, Levels(e)))]

EffectSample(e, x) ==
    CASE e.Type = "Delay" -> DelaySample(e, x, DelaySamples(e))
      [] e.Type = "Distortion" -> DistortionSample(e, x)
      [] e.Type = "Chorus" -> ChorusSample(e, x)
      [] e.Type = "BitCrusher" -> BitCrusherSample(e, x)
      [] OTHER -> [effect |-> e, sample |-> x]

\* The loop of the effect over the samples i..j in order (taken as a first
\* and a second half).
RECURSIVE EffectLoop(_, _, _, _)
EffectLoop(e, buffer, i, j) ==
    IF i > j THEN [effect |-> e, buffer |-> buffer]
    ELSE IF i = j
    THEN With(EffectSample(e, buffer[i]), LAMBDA r :
              [effect |-> r.effect, buffer |-> [buffer EXCEPT ![i] = r.sample]])
    ELSE With(EffectLoop(e, buffer, i, (i + j) \div 2), LAMBDA a :
              EffectLoop(a.effect, a.buffer, (i + j) \div 2 + 1, j))

\* Effect.Process: in place, by the effect's type (Reverb has no processing).
EffectProcess(e, buffer) == EffectLoop(e, buffer, 1, Len(buffer))

\* Effect.Reset
EffectReset(e) ==
    [e EXCEPT !.delayLine = EmptyLine, !.delayIndex = 0, !.lfoPhase = 0,
              !.sampleHold = 0, !.holdCount = 0]

\* Filter.Reset
FilterReset(f) == [f EXCEPT !.x1 = 0, !.x2 = 0, !.y1 = 0, !.y2 = 0]


(***************************************************************************)
(* The engine and the driver it calls.  The driver (PortAudio) is seen     *)
(* through the calls the engine makes: how many Initialize calls           *)
(* succeeded, how many Terminate calls were made, and for each stream      *)
(* opened its state and the Stop and Close calls it received.  Each of     *)
(* Initialize, OpenDefaultStream and Stream.Start may fail.                *)
(***************************************************************************)
StartOutcomes == {"init_failed", "open_failed", "start_failed", "ok"}

NoCall == [op |-> "none", err |-> "nil"]

Call(op, err) == [op |-> op, err |-> err]

\* portaudio.Terminate()
Terminate(d) == [d EXCEPT !.terms = @ + 1]

\* AudioEngine.IsRunning
IsRunning == isRunning # 0

\* The driver, the stream field and the flag after AudioEngine.Start, when the
\* driver answers with `outcome`.
StartEffect(outcome) ==
    LET inited == [pa EXCEPT !.inits = @ + 1]
        opened == [inited EXCEPT
                     !.streams = Append(@, [state |-> "open", stops |-> 0, closes |-> 0])]
        id == Len(opened.streams)
    IN CASE outcome = "init_failed" ->
              [pa |-> pa, stream |-> stream, isRunning |-> isRunning,
               err |-> "failed to initialize PortAudio"]
         [] outcome = "open_failed" ->
              [pa |-> Terminate(inited), stream |-> stream, isRunning |-> isRunning,
               err |-> "failed to open audio stream"]
         [] outcome = "start_failed" ->
              [pa |-> opened, stream |-> id, isRunning |-> 1,
               err |-> "failed to start audio stream"]
         [] outcome = "ok" ->
              [pa |-> [opened EXCEPT !.streams[id].state = "started"],
               stream |-> id, isRunning |-> 1, err |-> "nil"]

\* AudioEngine.Start
Start(outcome) ==
    /\ pa.inits < MaxStarts
    /\ \E r \in {StartEffect(outcome)} :
          /\ pa' = r.pa
          /\ stream' = r.stream
          /\ isRunning' = r.isRunning
          /\ lastCall' = Call("Start", r.err)
    /\ UNCHANGED <<oscillators, filters, effects, out, callbacks, benchVars, storeVars, threadVars>>

\* The driver after AudioEngine.Stop: the held stream, if any, is stopped and
\* closed, and the driver is terminated.
StopEffect ==
    LET closed == IF stream # 0
                  THEN [pa EXCEPT !.streams[stream] =
                           [state |-> "closed", stops |-> @.stops + 1,
                            closes |-> @.closes + 1]]
                  ELSE pa
    IN Terminate(closed)

\* A Stop that also ends the callback in flight (a faulty variant, kept for
\* comparison with Stop).
StopCancelling ==
    /\ pa.terms < MaxStops
    /\ isRunning' = 0
    /\ pa' = StopEffect
    /\ lastCall' = Call("Stop", "nil")
    /\ pc' = [pc EXCEPT !["audio"] = "idle"]
    /\ local' = [local EXCEPT !["audio"] = Idle]
    /\ UNCHANGED <<stream, oscillators, filters, effects, out, callbacks, benchVars, storeVars,
                   mu, smoothingMu, calls>>

\* AudioEngine.Stop
Stop ==
    /\ pa.terms < MaxStops
    /\ isRunning' = 0
    /\ pa' = StopEffect
    /\ lastCall' = Call("Stop", "nil")
    /\ UNCHANGED <<stream, oscillators, filters, effects, out, callbacks, benchVars, storeVars, threadVars>>

\* The buffers the driver hands to the callback: n frames per channel, holding
\* whatever the previous use left in them.
Stale == One
DriverBuffers(n) == [ch \in 1..Channels |-> [i \in 1..n |-> Stale]]

\* A silence path that clears the first channel only (a faulty variant, kept
\* for comparison with Silence).
SilenceFirstChannel(o) ==
    [ch \in DOMAIN o |-> IF ch = 1 THEN [i \in DOMAIN o[ch] |-> 0] ELSE o[ch]]

\* The silence path of processAudio: every sample of every channel set to zero.
Silence(o) == [ch \in DOMAIN o |-> [i \in DOMAIN o[ch] |-> 0]]

\* A mix that leaves the oscillator's buffer out (a faulty variant, kept for
\* comparison with AddBuffers).
DropOscillator(a, b) == a

\* mixBuffer[i] += tempBuffer[i]
AddBuffers(a, b) == [i \in DOMAIN a |-> a[i] + b[i]]

\* The oscillators in chain order, each generated into a buffer of its own and
\* summed into the mix.
RECURSIVE MixOscillators(_, _, _, _)
MixOscillators(oscs, i, mix, pm) ==
    IF i > Len(oscs) THEN [chain |-> oscs, buffer |-> mix]
    ELSE With(Generate(oscs[i], Len(mix), pm), LAMBDA g :
              MixOscillators([oscs EXCEPT ![i] = g.osc], i + 1,
                             AddBuffers(mix, g.buffer), pm))

RECURSIVE ApplyFilters(_, _, _, _)
ApplyFilters(fs, i, buffer, pm) ==
    IF i > Len(fs) THEN [chain |-> fs, buffer |-> buffer]
    ELSE With(FilterProcess(fs[i], buffer, pm), LAMBDA r :
              ApplyFilters([fs EXCEPT ![i] = r.filter], i + 1, r.buffer, pm))

RECURSIVE ApplyEffects(_, _, _)
ApplyEffects(es, i, buffer) ==
    IF i > Len(es) THEN [chain |-> es, buffer |-> buffer]
    ELSE With(EffectProcess(es[i], buffer), LAMBDA r :
              ApplyEffects([es EXCEPT ![i] = r.effect], i + 1, r.buffer))

\* processAudio on the buffers o: the chains and the buffers afterwards.
ProcessAudioEffect(o) ==
    IF ~IsRunning
    THEN [oscillators |-> oscillators, filters |-> filters, effects |-> effects,
          out |-> Silence(o)]
    ELSE LET frameCount == Len(o[1])
         IN With(MixOscillators(oscillators, 1, [i \in 1..frameCount |-> 0], params),
                 LAMBDA mixed :
            With(ApplyFilters(filters, 1, mixed.buffer, params), LAMBDA filtered :
            With(ApplyEffects(effects, 1, filtered.buffer), LAMBDA effected :
                [oscillators |-> mixed.chain, filters |-> filtered.chain,
                 effects |-> effected.chain,
                 out |-> [ch \in DOMAIN o |-> effected.buffer]])))

\* The driver (or a test) invokes the callback on buffers of n frames.
ProcessAudio(n) ==
    /\ IsRunning => callbacks < MaxCallbacks
    /\ \E r \in {ProcessAudioEffect(DriverBuffers(n))} :
          /\ oscillators' = r.oscillators
          /\ filters' = r.filters
          /\ effects' = r.effects
          /\ out' = r.out
    /\ lastCall' = Call("processAudio", "nil")
    /\ callbacks' = IF IsRunning THEN callbacks + 1 ELSE callbacks
    /\ UNCHANGED <<isRunning, stream, pa, storeVars, threadVars, benchVars>>

\* The chain elements added and the parameters set since construction.
Configured ==
    (Len(oscillators) - 1) + (Len(filters) - 1) + Len(effects)
    + Cardinality(DOMAIN params)

\* AudioEngine.AddOscillator
AddOscillator(osc) ==
    /\ Configured < MaxConfigs
    /\ oscillators' = Append(oscillators, osc)
    /\ UNCHANGED <<lastCall, callbacks, benchVars, isRunning, stream, pa, filters, effects, out, storeVars, threadVars>>

\* AudioEngine.AddFilter
AddFilter(filter) ==
    /\ Configured < MaxConfigs
    /\ filters' = Append(filters, filter)
    /\ UNCHANGED <<lastCall, callbacks, benchVars, isRunning, stream, pa, oscillators, effects, out, storeVars, threadVars>>

\* AudioEngine.AddEffect
AddEffect(effect) ==
    /\ Configured < MaxConfigs
    /\ effects' = Append(effects, effect)
    /\ UNCHANGED <<lastCall, callbacks, benchVars, isRunning, stream, pa, oscillators, filters, out, storeVars, threadVars>>


(***************************************************************************)
(* Parameter store: the writes and reads of each method on the three maps  *)
(***************************************************************************)
\* pm.params[key] = value
WriteParam(p, key, value) == MapPut(p, key, value)

\* A write that leaves the lock-free slot as it was (a faulty variant, kept
\* for comparison with StoreAtomic).
StoreAtomicSkipped(a, key, value) == a

\* if atomicParam, exists := pm.atomicParams[key]; exists { atomicParam.Store(value) }
StoreAtomic(a, key, value) ==
    IF key \in DOMAIN a THEN [a EXCEPT ![key] = value] ELSE a

\* smoother.target = value
SetTarget(sm, key, value) == [sm EXCEPT ![key].target = value]

\* smoother.active = true
SetActive(sm, key) == [sm EXCEPT ![key].active = TRUE]

\* if smoother, exists := pm.smoothing[key]; exists { target = value; active = true }
Retarget(sm, key, value) ==
    IF key \in DOMAIN sm THEN SetActive(SetTarget(sm, key, value), key) ELSE sm

\* ParameterManager.Set, as one call.
Set(key, value) ==
    /\ params' = WriteParam(params, key, value)
    /\ atomicParams' = StoreAtomic(atomicParams, key, value)
    /\ smoothing' = Retarget(smoothing, key, value)

\* The control thread sets a parameter of the chain while the engine lives.
ChainSettings ==
    {<<"osc1_frequency", 880>>}

EngineSet(key, value) ==
    /\ Configured < MaxConfigs
    /\ Set(key, value)
    /\ UNCHANGED <<engineVars, lastCall, callbacks, benchVars, threadVars>>

(***************************************************************************)
(* The engine's specification                                              *)
(***************************************************************************)
\* NewAudioEngine: the default oscillator and low-pass filter, no effect.
NewAudioEngine ==
    [oscillators |-> <<NewOscillator("Sine", 440, (3 * One) \div 10)>>,
     filters |-> <<NewLowPassFilter(1000, (7 * One) \div 10)>>,
     effects |-> <<>>]

\* The frame counts a callback is invoked with.
FrameCounts == {1, 2}

OscillatorChoices == {NewOscillator("Saw", 11025, One)}
FilterChoices == {NewHighPassFilter(5000, One)}
EffectChoices == {NewEffect(t) : t \in {"Delay", "Chorus", "BitCrusher"}}

Init ==
    /\ isRunning = 0
    /\ stream = 0
    /\ pa = [inits |-> 0, terms |-> 0, streams |-> <<>>]
    /\ oscillators = NewAudioEngine.oscillators
    /\ filters = NewAudioEngine.filters
    /\ effects = NewAudioEngine.effects
    /\ out = [ch \in 1..Channels |-> <<>>]
    /\ lastCall = NoCall
    /\ callbacks = 0
    /\ params = NewParameterManager.params
    /\ atomicParams = NewParameterManager.atomicParams
    /\ smoothing = NewParameterManager.smoothing
    /\ mu = NewRWMutex
    /\ smoothingMu = NewRWMutex
    /\ pc = [t \in Threads |-> "idle"]
    /\ local = [t \in Threads |-> Idle]
    /\ calls = [t \in Threads |-> 0]
    /\ fed = <<>>
    /\ heard = <<>>

Next ==
    \/ \E outcome \in StartOutcomes : Start(outcome)
    \/ Stop
    \/ \E n \in FrameCounts : ProcessAudio(n)
    \/ \E osc \in OscillatorChoices : AddOscillator(osc)
    \/ \E filter \in FilterChoices : AddFilter(filter)
    \/ \E effect \in EffectChoices : AddEffect(effect)
    \/ \E kv \in ChainSettings : EngineSet(kv[1], kv[2])

Spec == Init /\ [][Next]_vars

(***************************************************************************)
(* Properties of the engine's life cycle                                   *)
(***************************************************************************)
\* The engine is Running on a stream the driver has started.
RunningOnStream ==
    /\ IsRunning
    /\ stream # 0
    /\ pa.streams[stream].state = "started"

\* The driver resources in use: initialisations not yet terminated, and the
\* streams not closed.
Held(d) ==
    [driver |-> d.inits - d.terms,
     open |-> {i \in DOMAIN d.streams : d.streams[i].state # "closed"}]

\* C1: Start is not reentrant.  A call of Start while the engine is Running
\* returns an error, does not initialise the driver or open a stream, and the
\* engine keeps the stream of the first successful Start.
C1_StartNotReentrant ==
    [][((\E outcome \in StartOutcomes : Start(outcome)) /\ RunningOnStream)
          => (/\ lastCall'.err # "nil"
              /\ pa' = pa
              /\ stream' = stream)]_vars

\* C2: the engine is Running only between a successful Start and the next
\* Stop.  A Start called on a stopped engine that returns an error, whichever
\* of its three steps failed, leaves IsRunning() false.
C2_RunningOnlyAfterSuccessfulStart ==
    [][((\E outcome \in StartOutcomes : Start(outcome))
            /\ ~IsRunning /\ lastCall'.err # "nil")
          => isRunning' = 0]_vars

\* C3: a Start that returns an error has released every driver resource it
\* acquired: the driver is no more initialised and no more streams are open
\* than before the call.
C3_FailedStartReleases ==
    [][((\E outcome \in StartOutcomes : Start(outcome)) /\ lastCall'.err # "nil")
          => Held(pa') = Held(pa)]_vars

\* C4: Stop is idempotent.  A Stop that follows a Stop leaves the flag and the
\* driver as they were; after any Stop no stream has been stopped or closed
\* twice, and the driver has not been terminated more often than initialised.
C4_StopIdempotent ==
    [][Stop
          => (/\ lastCall.op = "Stop" => (isRunning' = isRunning /\ pa' = pa)
              /\ pa'.terms <= pa'.inits
              /\ \A i \in DOMAIN pa'.streams :
                    pa'.streams[i].stops <= 1 /\ pa'.streams[i].closes <= 1)]_vars

\* C5: when the engine is not Running, processAudio writes zero to every
\* sample of every channel, for any frame count and whatever is in the chains,
\* and leaves the oscillators, filters and effects (phase, history, delay
\* index, LFO phase, hold counter) as they were.
C5_StoppedCallbackIsSilent ==
    [][\A n \in FrameCounts :
          (~IsRunning /\ ProcessAudio(n))
             => (/\ out' = [ch \in 1..Channels |-> [i \in 1..n |-> 0]]
                 /\ UNCHANGED <<oscillators, filters, effects>>)]_vars

\* A stopped engine whose chain has run before (the oscillator's phase has
\* advanced, an effect is in the chain) has just answered a callback of two
\* frames with silence.
C5_Witness ==
    /\ lastCall.op = "processAudio"
    /\ ~IsRunning
    /\ callbacks > 0
    /\ oscillators[1].Phase # 0
    /\ Len(effects) > 0
    /\ out = [ch \in 1..Channels |-> <<0, 0>>]

(***************************************************************************)
(* Parameter store: values and smoothing                                   *)
(*                                                                         *)
(* A parameter value v is the integer v * Grid: the values the store holds *)
(* lie on a grid, as float64 values of one magnitude do, and a sum is      *)
(* rounded to the nearest grid point, a tie going to the even one.  The    *)
(* convergence threshold 0.0001 is Threshold grid steps.  A smoothing rate *)
(* r is the integer r * Grid, so (target - current) * rate is the step in  *)
(* units of 1/Grid of a grid step.                                         *)
(***************************************************************************)
Threshold == 4
Grid == 10000 * Threshold

\* current + num/Grid, rounded to the grid.
AddRounded(current, num) ==
    LET q == FloorDiv(num, Grid)
        r == num - q * Grid
    IN IF 2 * r < Grid THEN current + q
       ELSE IF 2 * r > Grid THEN current + q + 1
       ELSE IF (current + q) % 2 = 0 THEN current + q ELSE current + q + 1

\* &ParameterSmoother{current: currentValue, target: currentValue, rate: rate, active: false}
NewSmoother(currentValue, rate) ==
    [current |-> currentValue, target |-> currentValue, rate |-> rate,
     active |-> FALSE]

\* smoother.current += (smoother.target - smoother.current) * smoother.rate
SmoothAdvance(s) ==
    [s EXCEPT !.current = AddRounded(s.current, (s.target - s.current) * s.rate)]

\* absFloat64(smoother.target-smoother.current) < 0.0001
Converged(s) == Abs(s.target - s.current) < Threshold

\* A convergence branch that switches the smoother off where it stands (a
\* faulty variant, kept for comparison with Settle).
SettleWithoutSnap(s) ==
    IF Converged(s) THEN [s EXCEPT !.active = FALSE] ELSE s

\* smoother.current = smoother.target
Snap(s) == [s EXCEPT !.current = s.target]

\* smoother.active = false
SwitchOff(s) == [s EXCEPT !.active = FALSE]

\* if converged { smoother.current = smoother.target; smoother.active = false }
Settle(s) == IF Converged(s) THEN SwitchOff(Snap(s)) ELSE s

\* ParameterManager.GetWithDefault on the map p
GetWithDefault(p, key, defaultValue) ==
    IF Get(p, key).exists THEN Get(p, key).val ELSE defaultValue

\* ParameterManager.GetSmoothed: the smoothers afterwards and the value returned.
GetSmoothed(p, sm, key, defaultValue) ==
    IF key \in DOMAIN sm /\ sm[key].active
    THEN With(Settle(SmoothAdvance(sm[key])), LAMBDA s :
              [smoothing |-> [sm EXCEPT ![key] = s], ret |-> s.current])
    ELSE [smoothing |-> sm, ret |-> GetWithDefault(p, key, defaultValue)]

\* ParameterManager.GetAtomic on the slots a
GetAtomic(a, key) ==
    IF key \in DOMAIN a THEN [val |-> a[key], exists |-> TRUE]
                        ELSE [val |-> 0, exists |-> FALSE]

\* ParameterManager.GetAll: a copy of the map.
GetAll(p) == [k \in DOMAIN p |-> p[k]]

\* ParameterManager.EnableSmoothing: a fresh smoother at the key's value.
EnableSmoothing(p, sm, key, rate) ==
    MapPut(sm, key, NewSmoother(GetWithDefault(p, key, 0), rate))

\* The loop of ParameterManager.BatchSet over the updates, in the order the
\* map iteration yields them.
RECURSIVE BatchSet(_, _, _)
BatchSet(p, a, updates) ==
    IF DOMAIN updates = {} THEN [params |-> p, atomicParams |-> a]
    ELSE LET key == CHOOSE k \in DOMAIN updates : TRUE
         IN BatchSet(WriteParam(p, key, updates[key]),
                     StoreAtomic(a, key, updates[key]),
                     [k \in DOMAIN updates \ {key} |-> updates[k]])

(***************************************************************************)
(* The store used by one caller at a time: every method runs from its      *)
(* first statement to its return before the next begins.  lastCall holds   *)
(* the last method called, its key and what it returned (for a write, the  *)
(* value written; for GetSmoothed, whether it took the smoothing branch).  *)
(***************************************************************************)
StoreKeys == {"osc1_frequency", "filter_frequency"}
StoreValues == {16 * Threshold, 32 * Threshold}
Rates == {Grid \div 16, Grid \div 2, Grid}
Batches == UNION {[K -> StoreValues] : K \in SUBSET StoreKeys}

Returned(op, key, val, ok) == [op |-> op, key |-> key, val |-> val, ok |-> ok]

\* What a write leaves alone besides the store, and its count.
Written ==
    /\ calls["control"] < MaxControlCalls
    /\ calls' = [calls EXCEPT !["control"] = @ + 1]
    /\ UNCHANGED <<engineVars, callbacks, benchVars, mu, smoothingMu, pc, local>>

\* What a read leaves alone.
ReadOnly == UNCHANGED <<engineVars, callbacks, benchVars, threadVars>>

CallSet(key, value) ==
    /\ Written
    /\ Set(key, value)
    /\ lastCall' = Returned("Set", key, value, TRUE)

CallBatchSet(updates) ==
    /\ Written
    /\ \E r \in {BatchSet(params, atomicParams, updates)} :
          /\ params' = r.params
          /\ atomicParams' = r.atomicParams
    /\ smoothing' = smoothing
    /\ lastCall' = Returned("BatchSet", "", updates, TRUE)

\* ParameterManager.RegisterAtomic
CallRegisterAtomic(key, initialValue) ==
    /\ Written
    /\ atomicParams' = MapPut(atomicParams, key, initialValue)
    /\ params' = WriteParam(params, key, initialValue)
    /\ smoothing' = smoothing
    /\ lastCall' = Returned("RegisterAtomic", key, initialValue, TRUE)

CallEnableSmoothing(key, rate) ==
    /\ Written
    /\ smoothing' = EnableSmoothing(params, smoothing, key, rate)
    /\ UNCHANGED <<params, atomicParams>>
    /\ lastCall' = Returned("EnableSmoothing", key, rate, TRUE)

CallGetSmoothed(key, defaultValue) ==
    /\ ReadOnly
    /\ \E r \in {GetSmoothed(params, smoothing, key, defaultValue)} :
          /\ smoothing' = r.smoothing
          /\ lastCall' = Returned("GetSmoothed", key, r.ret,
                                  key \in DOMAIN smoothing /\ smoothing[key].active)
    /\ UNCHANGED <<params, atomicParams>>

CallGet(key) ==
    /\ ReadOnly
    /\ lastCall' = Returned("Get", key, Get(params, key).val, Get(params, key).exists)
    /\ UNCHANGED storeVars

CallGetWithDefault(key, defaultValue) ==
    /\ ReadOnly
    /\ lastCall' = Returned("GetWithDefault", key,
                            GetWithDefault(params, key, defaultValue), TRUE)
    /\ UNCHANGED storeVars

CallGetAtomic(key) ==
    /\ ReadOnly
    /\ lastCall' = Returned("GetAtomic", key, GetAtomic(atomicParams, key).val,
                            GetAtomic(atomicParams, key).exists)
    /\ UNCHANGED storeVars

CallGetAll ==
    /\ ReadOnly
    /\ lastCall' = Returned("GetAll", "", GetAll(params), TRUE)
    /\ UNCHANGED storeVars

StoreNext ==
    \/ \E key \in StoreKeys, value \in StoreValues : CallSet(key, value)
    \/ \E updates \in Batches : CallBatchSet(updates)
    \/ \E key \in StoreKeys, value \in StoreValues : CallRegisterAtomic(key, value)
    \/ \E key \in StoreKeys, rate \in Rates : CallEnableSmoothing(key, rate)
    \/ \E key \in StoreKeys : CallGetSmoothed(key, 0)
    \/ \E key \in StoreKeys : CallGet(key)
    \/ \E key \in StoreKeys : CallGetWithDefault(key, 0)
    \/ \E key \in StoreKeys : CallGetAtomic(key)
    \/ CallGetAll

StoreSpec == Init /\ [][StoreNext]_vars

(***************************************************************************)
(* Properties of the store used by one caller at a time                    *)
(***************************************************************************)
\* C7: after Set(key, v) has returned, Get(key) is (v, true), GetAtomic(key)
\* is (v, true) if a slot is registered for key, and a smoother attached to
\* key has target v and is active; and between calls, after any sequence of
\* Set, BatchSet and RegisterAtomic, every registered slot holds the value of
\* the primary record.
C7_SetReachesEveryView ==
    /\ lastCall.op = "Set" =>
          /\ Get(params, lastCall.key) = [val |-> lastCall.val, exists |-> TRUE]
          /\ lastCall.key \in DOMAIN atomicParams =>
                GetAtomic(atomicParams, lastCall.key)
                    = [val |-> lastCall.val, exists |-> TRUE]
          /\ lastCall.key \in DOMAIN smoothing =>
                /\ smoothing[lastCall.key].target = lastCall.val
                /\ smoothing[lastCall.key].active
    /\ \A key \in DOMAIN atomicParams :
          Get(params, key) = [val |-> atomicParams[key], exists |-> TRUE]

\* Set has just returned for a key that has a slot and a smoother standing at
\* another value.
C7_Witness ==
    /\ lastCall.op = "Set"
    /\ lastCall.key \in DOMAIN atomicParams
    /\ lastCall.key \in DOMAIN smoothing
    /\ smoothing[lastCall.key].current # lastCall.val
    /\ calls["control"] = MaxControlCalls

\* One call of GetSmoothed took the smoother from s to t and returned ret:
\* t lies between s.current and the target, strictly nearer the target unless
\* there already; the distance shrank by the factor 1 - rate, up to the
\* rounding of the result (which bounds the number of calls by the rate and
\* the threshold); within the threshold t is exactly the target and the
\* smoother is off, otherwise it stays on; ret is t.current.
MovedToward(s, t, ret) ==
    /\ t.target = s.target /\ t.rate = s.rate
    /\ ret = t.current
    /\ s.current <= s.target => (s.current <= t.current /\ t.current <= s.target)
    /\ s.current >= s.target => (s.target <= t.current /\ t.current <= s.current)
    /\ \/ t.current = s.target
       \/ Abs(s.target - t.current) < Abs(s.target - s.current)
    /\ Abs(s.target - t.current) * Grid
          <= Abs(s.target - s.current) * (Grid - s.rate) + Grid \div 2
    /\ Abs(s.target - t.current) < Threshold => t.current = s.target
    /\ t.active <=> t.current # s.target

\* The step a rate takes from a distance of the threshold is not rounded away.
NotLost(rate) == 2 * Threshold * rate > Grid

\* C9 (as stated): after EnableSmoothing(key, r), r in (0, 1], and Set(key, T),
\* every GetSmoothed moves the returned value toward T without overshooting,
\* and after a number of calls bounded by r and the threshold the value is
\* exactly T and the smoother inactive.
C9_SmoothingConverges ==
    [][\A key \in StoreKeys :
          (/\ CallGetSmoothed(key, 0)
           /\ key \in DOMAIN smoothing
           /\ smoothing[key].active)
             => MovedToward(smoothing[key], smoothing'[key], lastCall'.val)]_vars

\* C9 (amended): the same, for the rates whose step at the threshold is not
\* lost to the rounding of the sum.
C9_SmoothingConvergesUnlessLost ==
    [][\A key \in StoreKeys :
          (/\ CallGetSmoothed(key, 0)
           /\ key \in DOMAIN smoothing
           /\ smoothing[key].active
           /\ NotLost(smoothing[key].rate))
             => MovedToward(smoothing[key], smoothing'[key], lastCall'.val)]_vars

\* GetSmoothed, on its smoothing branch at rate 1/2, has just returned the
\* target exactly and switched the smoother off.
C9_Witness ==
    /\ lastCall.op = "GetSmoothed"
    /\ lastCall.ok
    /\ smoothing[lastCall.key].rate = Grid \div 2
    /\ ~smoothing[lastCall.key].active
    /\ smoothing[lastCall.key].current = smoothing[lastCall.key].target
    /\ lastCall.val = 32 * Threshold

(***************************************************************************)
(* The store used by the control thread and the audio thread at once.      *)
(* Every method is a sequence of steps, one per lock operation and one per *)
(* access to memory another thread can reach meanwhile (statements that    *)
(* run where no other thread can see between them, such as the writes that *)
(* follow the taking of pm.mu, are one step); pc holds the step a thread   *)
(* is to take next.  lastCall holds the call the audio thread completed    *)
(* before its current one.                                                 *)
(***************************************************************************)
\* The parameters the callback reads: Oscillator.Generate, then Filter.Process.
CallbackReads == <<"osc1_frequency", "filter_frequency", "filter_resonance">>

\* The calls of the control thread: any Set; a batch that moves both keys to
\* one value; a slot registered at the lower value; smoothing at rate 1.
ControlCalls ==
    {NewCall("Set", key, value) : key \in StoreKeys, value \in StoreValues}
    \cup {[NewCall("BatchSet", "", [key \in StoreKeys |-> value]) EXCEPT
              !.rest = [key \in StoreKeys |-> value]] : value \in StoreValues}
    \cup {NewCall("RegisterAtomic", key, 16 * Threshold) : key \in StoreKeys}
    \cup {NewCall("EnableSmoothing", key, Grid) : key \in StoreKeys}

AudioCalls ==
    {[NewCall("processAudio", Head(CallbackReads), 0) EXCEPT
         !.rest = Tail(CallbackReads)]}
    \cup {NewCall("GetSmoothed", key, 0) : key \in StoreKeys}
    \cup {NewCall("GetAtomic", key, 0) : key \in StoreKeys}
    \cup {NewCall("Get", key, 0) : key \in StoreKeys}
    \cup {NewCall("GetAll", "", 0)}

CallsOf(t) == IF t = "control" THEN ControlCalls ELSE AudioCalls
MaxCalls(t) == IF t = "control" THEN MaxControlCalls ELSE MaxAudioCalls

\* The first step of each method.
FirstStep(op) ==
    CASE op \in {"Set", "BatchSet", "RegisterAtomic"} -> "LockMu"
      [] op = "EnableSmoothing" -> "LockSmoothingMu"
      [] op = "GetSmoothed" -> "SmoothedRLock"
      [] op = "GetAtomic" -> "AtomicLookup"
      [] OTHER -> "GetRLock"

\* The control thread's BatchSet is between taking and releasing the lock.
InBatch ==
    /\ local["control"].op = "BatchSet"
    /\ pc["control"] \in {"BatchLoop", "UnlockMu"}

Stamp == IF InBatch THEN calls["control"] ELSE 0

\* Thread t calls a method.
Begin(t, call) ==
    /\ pc[t] = "idle"
    /\ calls[t] < MaxCalls(t)
    /\ pc' = [pc EXCEPT ![t] = FirstStep(call.op)]
    /\ local' = [local EXCEPT ![t] = call]
    /\ calls' = [calls EXCEPT ![t] = @ + 1]
    /\ lastCall' = IF t = "audio" THEN local[t] ELSE lastCall
    /\ UNCHANGED <<engineVars, callbacks, benchVars, storeVars, mu, smoothingMu>>

\* Thread t moves from one step to the next.
Step(t, from, to) ==
    /\ pc[t] = from
    /\ pc' = [pc EXCEPT ![t] = to]
    /\ UNCHANGED <<engineVars, callbacks, benchVars, calls, lastCall>>

\* pm.mu.Lock() of Set, BatchSet and RegisterAtomic
LockMu(t) ==
    /\ Step(t, "LockMu", "AcquireMu")
    /\ mu' = Announce(mu, t)
    /\ UNCHANGED <<storeVars, smoothingMu, local>>

\* A reader that has looked a slot up and not yet loaded from it keeps that
\* slot when RegisterAtomic replaces it in the map: it will load the value
\* the old slot holds, which no later write reaches.
KeepOldSlot(loc, key) ==
    [u \in Threads |->
        IF pc[u] = "AtomicLoad" /\ loc[u].key = key /\ ~loc[u].ok
        THEN [loc[u] EXCEPT !.val = atomicParams[key], !.ok = TRUE]
        ELSE loc[u]]

\* The lock is taken.  Set goes on to write the primary record and the slot;
\* RegisterAtomic is to write the slot table next; BatchSet enters its loop
\* (its call keeps the map as it was before the batch).
AcquireMu(t) ==
    /\ CanLock(mu)
    /\ Step(t, "AcquireMu",
            CASE local[t].op = "Set" -> "SetRLock"
              [] local[t].op = "RegisterAtomic" -> "RegisterInstall"
              [] OTHER -> IF DOMAIN local[t].rest = {} THEN "UnlockMu"
                                                      ELSE "BatchLoop")
    /\ mu' = Lock(mu, t)
    /\ params' = IF local[t].op = "Set"
                 THEN WriteParam(params, local[t].key, local[t].arg)
                 ELSE params
    /\ atomicParams' = IF local[t].op = "Set"
                       THEN StoreAtomic(atomicParams, local[t].key, local[t].arg)
                       ELSE atomicParams
    /\ local' = IF local[t].op = "BatchSet"
                THEN [local EXCEPT ![t].val = params]
                ELSE local
    /\ UNCHANGED <<smoothing, smoothingMu>>

\* RegisterAtomic: pm.atomicParams[key] = atomicVal, the write of the slot
\* table, which the lock keeps from Set and BatchSet but not from GetAtomic;
\* then pm.params[key] = initialValue.
RegisterInstall(t) ==
    /\ Step(t, "RegisterInstall", "UnlockMu")
    /\ atomicParams' = MapPut(atomicParams, local[t].key, local[t].arg)
    /\ params' = WriteParam(params, local[t].key, local[t].arg)
    /\ local' = IF local[t].key \in DOMAIN atomicParams
                THEN KeepOldSlot(local, local[t].key)
                ELSE local
    /\ UNCHANGED <<smoothing, mu, smoothingMu>>

\* Set: pm.smoothingMu.RLock() and the lookup of the smoother
SetRLock(t) ==
    /\ CanRLock(smoothingMu)
    /\ Step(t, "SetRLock",
            IF local[t].key \in DOMAIN smoothing THEN "SetTarget" ELSE "SetRUnlock")
    /\ smoothingMu' = RLock(smoothingMu, t)
    /\ UNCHANGED <<storeVars, mu, local>>

SetTargetStep(t) ==
    /\ Step(t, "SetTarget", "SetActive")
    /\ smoothing' = SetTarget(smoothing, local[t].key, local[t].arg)
    /\ UNCHANGED <<params, atomicParams, mu, smoothingMu, local>>

SetActiveStep(t) ==
    /\ Step(t, "SetActive", "SetRUnlock")
    /\ smoothing' = SetActive(smoothing, local[t].key)
    /\ UNCHANGED <<params, atomicParams, mu, smoothingMu, local>>

SetRUnlock(t) ==
    /\ Step(t, "SetRUnlock", "UnlockMu")
    /\ smoothingMu' = RUnlock(smoothingMu, t)
    /\ UNCHANGED <<storeVars, mu, local>>

\* defer pm.mu.Unlock(), and the return
UnlockMu(t) ==
    /\ Step(t, "UnlockMu", "idle")
    /\ mu' = Unlock(mu)
    /\ local' = [local EXCEPT ![t] = Idle]
    /\ UNCHANGED <<storeVars, smoothingMu>>

\* BatchSet: one iteration of the loop, on whichever key the map yields next.
BatchLoop(t) ==
    \E key \in DOMAIN local[t].rest :
        /\ Step(t, "BatchLoop",
                IF DOMAIN local[t].rest = {key} THEN "UnlockMu" ELSE "BatchLoop")
        /\ params' = WriteParam(params, key, local[t].rest[key])
        /\ atomicParams' = StoreAtomic(atomicParams, key, local[t].rest[key])
        /\ local' = [local EXCEPT ![t].rest =
                        [k \in DOMAIN local[t].rest \ {key} |-> local[t].rest[k]]]
        /\ UNCHANGED <<smoothing, mu, smoothingMu>>

\* EnableSmoothing: pm.smoothingMu.Lock()
LockSmoothingMu(t) ==
    /\ Step(t, "LockSmoothingMu", "AcquireSmoothingMu")
    /\ smoothingMu' = Announce(smoothingMu, t)
    /\ UNCHANGED <<storeVars, mu, local>>

\* The lock is taken; GetWithDefault is called next.
AcquireSmoothingMu(t) ==
    /\ CanLock(smoothingMu)
    /\ Step(t, "AcquireSmoothingMu", "GetRLock")
    /\ smoothingMu' = Lock(smoothingMu, t)
    /\ UNCHANGED <<storeVars, mu, local>>

\* Get, GetAll: pm.mu.RLock(), then val, exists := pm.params[key] (GetAll:
\* the copy of the map)
GetRLock(t) ==
    /\ CanRLock(mu)
    /\ Step(t, "GetRLock", "GetRUnlock")
    /\ mu' = RLock(mu, t)
    /\ local' = [local EXCEPT ![t] =
                    IF local[t].op = "GetAll"
                    THEN [@ EXCEPT !.val = GetAll(params), !.ok = TRUE,
                                   !.during = Stamp]
                    ELSE [@ EXCEPT !.val = Get(params, local[t].key).val,
                                   !.ok = Get(params, local[t].key).exists,
                                   !.during = Stamp]]
    /\ UNCHANGED <<storeVars, smoothingMu>>

\* defer pm.mu.RUnlock(), and the return to the caller of Get: the next read
\* of the callback, GetWithDefault's choice of the default in GetSmoothed and
\* EnableSmoothing.
GetRUnlock(t) ==
    /\ Step(t, "GetRUnlock",
            CASE local[t].op = "GetSmoothed" -> "SmoothedRUnlock"
              [] local[t].op = "EnableSmoothing" -> "EnableInstall"
              [] local[t].op = "processAudio" /\ local[t].rest # <<>> -> "GetRLock"
              [] OTHER -> "idle")
    /\ mu' = RUnlock(mu, t)
    /\ local' = [local EXCEPT ![t] =
                    CASE local[t].op = "processAudio" /\ local[t].rest # <<>> ->
                            [@ EXCEPT !.key = Head(local[t].rest),
                                      !.rest = Tail(local[t].rest)]
                      [] local[t].op = "GetSmoothed" ->
                            [@ EXCEPT !.val = IF local[t].ok THEN local[t].val
                                                             ELSE local[t].arg,
                                      !.ok = TRUE]
                      [] local[t].op = "EnableSmoothing" ->
                            [@ EXCEPT !.val = IF local[t].ok THEN local[t].val ELSE 0]
                      [] OTHER -> @]
    /\ UNCHANGED <<storeVars, smoothingMu>>

\* EnableSmoothing: pm.smoothing[key] = &ParameterSmoother{...}
EnableInstall(t) ==
    /\ Step(t, "EnableInstall", "UnlockSmoothingMu")
    /\ smoothing' = MapPut(smoothing, local[t].key,
                           NewSmoother(local[t].val, local[t].arg))
    /\ UNCHANGED <<params, atomicParams, mu, smoothingMu, local>>

\* defer pm.smoothingMu.Unlock(), and the return
UnlockSmoothingMu(t) ==
    /\ Step(t, "UnlockSmoothingMu", "idle")
    /\ smoothingMu' = Unlock(smoothingMu)
    /\ local' = [local EXCEPT ![t] = Idle]
    /\ UNCHANGED <<storeVars, mu>>

\* GetSmoothed: pm.smoothingMu.RLock() and the test exists && smoother.active
SmoothedRLock(t) ==
    /\ CanRLock(smoothingMu)
    /\ Step(t, "SmoothedRLock",
            IF local[t].key \in DOMAIN smoothing /\ smoothing[local[t].key].active
            THEN "SmoothedAdvance" ELSE "GetRLock")
    /\ smoothingMu' = RLock(smoothingMu, t)
    /\ UNCHANGED <<storeVars, mu, local>>

SmoothedAdvance(t) ==
    /\ Step(t, "SmoothedAdvance", "SmoothedCompare")
    /\ smoothing' = [smoothing EXCEPT ![local[t].key] = SmoothAdvance(@)]
    /\ UNCHANGED <<params, atomicParams, mu, smoothingMu, local>>

SmoothedCompare(t) ==
    /\ Step(t, "SmoothedCompare",
            IF Converged(smoothing[local[t].key]) THEN "SmoothedSnap"
                                                  ELSE "SmoothedRUnlock")
    /\ UNCHANGED <<storeVars, mu, smoothingMu, local>>

SmoothedSnap(t) ==
    /\ Step(t, "SmoothedSnap", "SmoothedOff")
    /\ smoothing' = [smoothing EXCEPT ![local[t].key] = Snap(@)]
    /\ UNCHANGED <<params, atomicParams, mu, smoothingMu, local>>

SmoothedOff(t) ==
    /\ Step(t, "SmoothedOff", "SmoothedRUnlock")
    /\ smoothing' = [smoothing EXCEPT ![local[t].key] = SwitchOff(@)]
    /\ UNCHANGED <<params, atomicParams, mu, smoothingMu, local>>

\* return smoother.current (or what GetWithDefault returned), and the
\* deferred pm.smoothingMu.RUnlock()
SmoothedRUnlock(t) ==
    /\ Step(t, "SmoothedRUnlock", "idle")
    /\ smoothingMu' = RUnlock(smoothingMu, t)
    /\ local' = IF local[t].ok
                THEN local
                ELSE [local EXCEPT ![t].val = smoothing[local[t].key].current,
                                   ![t].ok = TRUE]
    /\ UNCHANGED <<storeVars, mu>>

\* Thread t is about to read the slot table and another thread is about to
\* write it, with nothing that orders the two accesses: a data race.
RacingLookup(t) ==
    /\ pc[t] = "AtomicLookup"
    /\ \E u \in Threads \ {t} : pc[u] = "RegisterInstall"

\* What the read of the slot table does: it finds the entry or not; in a
\* race the Go runtime may also end the program with the fatal error
\* "concurrent map read and map write".
LookupOutcomes(t) == IF RacingLookup(t) THEN {"read", "fatal"} ELSE {"read"}

\* The program ended by a fatal error of the runtime: no thread goes on.
Crashed == [t \in Threads |-> "crashed"]

\* GetAtomic: atomicParam, exists := pm.atomicParams[key], under no lock
AtomicLookup(t) ==
    \E outcome \in LookupOutcomes(t) :
        /\ pc[t] = "AtomicLookup"
        /\ pc' = IF outcome = "fatal"
                 THEN Crashed
                 ELSE [pc EXCEPT ![t] = IF local[t].key \in DOMAIN atomicParams
                                        THEN "AtomicLoad" ELSE "idle"]
        /\ UNCHANGED <<engineVars, callbacks, benchVars, calls, lastCall>>
        /\ UNCHANGED <<storeVars, mu, smoothingMu, local>>

\* GetAtomic: atomicParam.Load()
AtomicLoad(t) ==
    /\ Step(t, "AtomicLoad", "idle")
    /\ local' = [local EXCEPT ![t].val = IF local[t].ok THEN local[t].val
                                          ELSE atomicParams[local[t].key],
                              ![t].ok = TRUE, ![t].during = Stamp]
    /\ UNCHANGED <<storeVars, mu, smoothingMu>>

ConcurrentNext ==
    \E t \in Threads :
        \/ \E call \in CallsOf(t) : Begin(t, call)
        \/ LockMu(t)
        \/ AcquireMu(t)
        \/ RegisterInstall(t)
        \/ SetRLock(t)
        \/ SetTargetStep(t)
        \/ SetActiveStep(t)
        \/ SetRUnlock(t)
        \/ UnlockMu(t)
        \/ BatchLoop(t)
        \/ LockSmoothingMu(t)
        \/ AcquireSmoothingMu(t)
        \/ GetRLock(t)
        \/ GetRUnlock(t)
        \/ EnableInstall(t)
        \/ UnlockSmoothingMu(t)
        \/ SmoothedRLock(t)
        \/ SmoothedAdvance(t)
        \/ SmoothedCompare(t)
        \/ SmoothedSnap(t)
        \/ SmoothedOff(t)
        \/ SmoothedRUnlock(t)
        \/ AtomicLookup(t)
        \/ AtomicLoad(t)

ConcurrentSpec == Init /\ [][ConcurrentNext]_vars

(***************************************************************************)
(* Properties of the store used by two threads                             *)
(***************************************************************************)
\* The completed read `read` returned value v for key.
Sees(read, key, v) ==
    CASE read.op \in {"Get", "GetAtomic"} ->
            read.ok /\ read.key = key /\ read.val = v
      [] read.op = "GetAll" -> key \in DOMAIN read.val /\ read.val[key] = v
      [] OTHER -> FALSE

\* While the control thread's BatchSet is changing keys a and b, the audio
\* thread read the new value of a and, in its next call, the value b had
\* before the batch.
PartialView(a, b) ==
    LET batch == local["control"]
        first == lastCall
        second == local["audio"]
    IN /\ InBatch
       /\ pc["audio"] = "idle"
       /\ first.op \in {"Get", "GetAtomic", "GetAll"}
       /\ first.during = calls["control"]
       /\ second.during = calls["control"]
       /\ {a, b} \subseteq DOMAIN batch.arg
       /\ {a, b} \subseteq DOMAIN batch.val
       /\ batch.arg[a] # batch.val[a]
       /\ batch.arg[b] # batch.val[b]
       /\ Sees(first, a, batch.arg[a])
       /\ Sees(second, b, batch.val[b])

\* C6: BatchSet is never partially visible.  No reader using Get, GetAll or
\* GetAtomic observes the new value of one key of a batch and afterwards the
\* pre-batch value of another.
C6_BatchSetNeverPartial ==
    \A a \in StoreKeys, b \in StoreKeys : a # b => ~PartialView(a, b)

\* No thread is inside a critical section of smoothingMu.
SmoothingQuiet == smoothingMu.writer = "none" /\ smoothingMu.readers = {}

\* C8: under any interleaving of Set on the control thread with GetSmoothed
\* on the audio thread (and EnableSmoothing), a smoother that is inactive has
\* current = target whenever no call is at work on the smoothers.
C8_InactiveMeansConverged ==
    SmoothingQuiet =>
        \A key \in DOMAIN smoothing :
            ~smoothing[key].active => smoothing[key].current = smoothing[key].target

\* C10: the callback never waits on the control thread.  While processAudio
\* is about to read a parameter, no Set or BatchSet of the control thread
\* holding (or awaiting) the store's lock keeps that read from proceeding.
C10_CallbackNeverWaits ==
    ~(/\ local["audio"].op = "processAudio"
      /\ pc["audio"] = "GetRLock"
      /\ local["control"].op \in {"Set", "BatchSet"}
      /\ ~CanRLock(mu))

(***************************************************************************)
(* The default engine answering callbacks of FrameSize frames              *)
(***************************************************************************)
\* The engine as NewAudioEngine built it: one oscillator, one filter, no
\* effect, no parameter set.
DefaultChain ==
    /\ Len(oscillators) = 1
    /\ Len(filters) = 1
    /\ effects = <<>>
    /\ DOMAIN params = {}

\* The driver invokes the callback with the buffer size the stream was opened
\* with.
FrameCallback == ProcessAudio(FrameSize)

FrameNext ==
    \/ \E outcome \in StartOutcomes : Start(outcome)
    \/ Stop
    \/ FrameCallback

FrameSpec == Init /\ [][FrameNext]_vars

\* C11: a callback of 512 frames on the default engine while Running fills
\* every sample of both channels, the two channels are sample for sample the
\* same, the output is not all zero, and every sample lies in [-1, 1].
C11_DefaultEngineFrame ==
    [][(IsRunning /\ DefaultChain /\ FrameCallback)
          => (/\ DOMAIN out' = 1..Channels
              /\ \A ch \in 1..Channels : Len(out'[ch]) = FrameSize
              /\ out'[1] = out'[2]
              /\ \E i \in 1..FrameSize : out'[1][i] # 0
              /\ \A ch \in 1..Channels : \A i \in 1..FrameSize :
                    /\ out'[ch][i] # Stale
                    /\ -One <= out'[ch][i] /\ out'[ch][i] <= One)]_vars

\* A Running default engine has just answered a callback of 512 frames with a
\* signal.
C11_Witness ==
    /\ lastCall.op = "processAudio"
    /\ IsRunning
    /\ callbacks > 0
    /\ Len(out[1]) = FrameSize
    /\ \E i \in 1..FrameSize : out[1][i] # 0

(***************************************************************************)
(* The callback statement by statement, with the control thread at work.   *)
(* The audio thread runs processAudio: it reads the flag once, then loops  *)
(* over the oscillators, the filters and the effects, then copies the mix  *)
(* to each channel.  A `range` loop reads the slice when it starts, so an  *)
(* element appended after that is not visited by the loop in progress; an  *)
(* append that races with that read is seen by it or not.                  *)
(***************************************************************************)
Stages == <<"oscillators", "filters", "effects", "copy">>

\* A stage of the callback that comes before the stage it should follow (a
\* faulty variant, kept for comparison with StageAfter).
EffectsBeforeFilters(stage) ==
    CASE stage = "oscillators" -> "effects"
      [] stage = "effects" -> "filters"
      [] stage = "filters" -> "copy"
      [] OTHER -> "idle"

\* The statement order of processAudio: the loop that follows each loop.
StageAfter(stage) ==
    CASE stage = "oscillators" -> "filters"
      [] stage = "filters" -> "effects"
      [] stage = "effects" -> "copy"
      [] OTHER -> "idle"

\* What a stage's loop ranges over.
ChainLen(stage) ==
    CASE stage = "oscillators" -> Len(oscillators)
      [] stage = "filters" -> Len(filters)
      [] stage = "effects" -> Len(effects)
      [] stage = "copy" -> Channels
      [] OTHER -> 0

\* The first loop from `stage` on that has something to range over.
RECURSIVE Enter(_)
Enter(stage) ==
    IF stage = "idle" \/ ChainLen(stage) > 0 THEN stage ELSE Enter(StageAfter(stage))

\* The callback's frame: frameCount, mixBuffer, what is left of the loop in
\* progress, the chain lengths when the callback began, and the elements that
\* have processed the buffer so far, in order.
NewFrame(n) ==
    [op |-> "processAudio", arg |-> n, val |-> [i \in 1..n |-> 0],
     rest |-> [i \in 1..ChainLen(Enter("oscillators")) |-> i],
     had |-> [k \in 1..3 |-> ChainLen(Stages[k])],
     ran |-> <<>>]

\* The driver invokes processAudio on buffers of n frames: the flag is read;
\* a stopped engine answers with silence, a Running one starts on its chain.
CallbackBegin(n) ==
    /\ pc["audio"] = "idle"
    /\ IsRunning => callbacks < MaxCallbacks
    /\ IF IsRunning
       THEN /\ out' = DriverBuffers(n)
            /\ pc' = [pc EXCEPT !["audio"] = Enter("oscillators")]
            /\ local' = [local EXCEPT !["audio"] = NewFrame(n)]
            /\ callbacks' = callbacks + 1
            /\ UNCHANGED lastCall
       ELSE /\ out' = Silence(DriverBuffers(n))
            /\ lastCall' = Call("processAudio", "nil")
            /\ UNCHANGED <<pc, local, callbacks, benchVars>>
    /\ UNCHANGED <<isRunning, stream, pa, oscillators, filters, effects, storeVars,
                   mu, smoothingMu, calls, benchVars>>

\* One iteration of the loop of `stage` is over, leaving `mix` in mixBuffer:
\* the loop goes on, or the next loop starts, or the callback returns.
Advance(stage, mix) ==
    LET f == local["audio"]
        to == IF Len(f.rest) > 1 THEN stage ELSE Enter(StageAfter(stage))
        g == [f EXCEPT !.val = mix,
                       !.rest = IF Len(f.rest) > 1 THEN Tail(f.rest)
                                ELSE [i \in 1..ChainLen(to) |-> i],
                       !.ran = Append(f.ran, <<stage, Head(f.rest)>>)]
    IN /\ pc["audio"] = stage
       /\ pc' = [pc EXCEPT !["audio"] = to]
       /\ local' = [local EXCEPT !["audio"] = IF to = "idle" THEN Idle ELSE g]
       /\ lastCall' = IF to = "idle" THEN Call("processAudio", "nil") ELSE lastCall
       /\ UNCHANGED <<isRunning, stream, pa, callbacks, benchVars, storeVars, mu, smoothingMu,
                      calls>>

\* osc.Generate(tempBuffer, ae.params), then mixBuffer[i] += tempBuffer[i]
GenerateStep ==
    /\ pc["audio"] = "oscillators"
    /\ \E g \in {Generate(oscillators[Head(local["audio"].rest)],
                          local["audio"].arg, params)} :
          /\ oscillators' = [oscillators EXCEPT ![Head(local["audio"].rest)] = g.osc]
          /\ Advance("oscillators", AddBuffers(local["audio"].val, g.buffer))
    /\ UNCHANGED <<filters, effects, out>>

\* filter.Process(mixBuffer, ae.params)
FilterStep ==
    /\ pc["audio"] = "filters"
    /\ \E r \in {FilterProcess(filters[Head(local["audio"].rest)],
                               local["audio"].val, params)} :
          /\ filters' = [filters EXCEPT ![Head(local["audio"].rest)] = r.filter]
          /\ Advance("filters", r.buffer)
    /\ UNCHANGED <<oscillators, effects, out>>

\* effect.Process(mixBuffer, ae.params)
EffectStep ==
    /\ pc["audio"] = "effects"
    /\ \E r \in {EffectProcess(effects[Head(local["audio"].rest)],
                               local["audio"].val)} :
          /\ effects' = [effects EXCEPT ![Head(local["audio"].rest)] = r.effect]
          /\ Advance("effects", r.buffer)
    /\ UNCHANGED <<oscillators, filters, out>>

\* copy(out[ch], mixBuffer)
CopyStep ==
    /\ pc["audio"] = "copy"
    /\ out' = [out EXCEPT ![Head(local["audio"].rest)] = local["audio"].val]
    /\ Advance("copy", local["audio"].val)
    /\ UNCHANGED <<oscillators, filters, effects>>

CallbackStep == GenerateStep \/ FilterStep \/ EffectStep \/ CopyStep

\* The control thread starts the engine (the driver's failures are left to
\* Spec), stops it and adds to its chains while the audio thread runs the
\* callback.
CallbackNext ==
    \/ Start("ok")
    \/ Stop
    \/ \E osc \in OscillatorChoices : AddOscillator(osc)
    \/ \E filter \in FilterChoices : AddFilter(filter)
    \/ \E effect \in EffectChoices : AddEffect(effect)
    \/ \E n \in FrameCounts : CallbackBegin(n)
    \/ GenerateStep
    \/ FilterStep
    \/ EffectStep
    \/ CopyStep

CallbackSpec == Init /\ [][CallbackNext]_vars

(***************************************************************************)
(* Properties of the callback in flight                                    *)
(***************************************************************************)
\* C12: a callback that began while the engine was Running runs to completion
\* whatever Stop does meanwhile: each of its statements stays enabled, Stop
\* leaves its position, its frame and the output buffers alone, and when it
\* returns every channel holds the whole processed mix.  A callback that
\* begins once the flag is cleared writes silence and processes nothing.
C12_NoMidFrameCancellation ==
    /\ [](pc["audio"] \in {"oscillators", "filters", "effects", "copy"}
             => ENABLED CallbackStep)
    /\ [][Stop => UNCHANGED <<out, pc, local>>]_vars
    /\ [][(CopyStep /\ pc'["audio"] = "idle")
             => \A ch \in 1..Channels :
                   /\ out'[ch] = local["audio"].val
                   /\ Len(out'[ch]) = local["audio"].arg]_vars
    /\ [][\A n \in FrameCounts :
             (~IsRunning /\ CallbackBegin(n))
                => (/\ out' = [ch \in 1..Channels |-> [i \in 1..n |-> 0]]
                    /\ UNCHANGED <<pc, local, oscillators, filters, effects>>)]_vars

\* The callback that was in flight when Stop cleared the flag has returned,
\* leaving a signal in both channels.
C12_Witness ==
    /\ lastCall.op = "processAudio"
    /\ pc["audio"] = "idle"
    /\ ~IsRunning
    /\ pa.terms > 0
    /\ out[1] = out[2]
    /\ \E i \in DOMAIN out[1] : out[1][i] # 0

\* C13: chain membership is never modified while a callback is reading it: no
\* AddOscillator, AddFilter or AddEffect appends to a chain while the callback
\* is in its loop over that chain.
C13_ChainsNotModifiedWhileRead ==
    [][/\ (\E osc \in OscillatorChoices : AddOscillator(osc))
             => pc["audio"] # "oscillators"
       /\ (\E filter \in FilterChoices : AddFilter(filter))
             => pc["audio"] # "filters"
       /\ (\E effect \in EffectChoices : AddEffect(effect))
             => pc["audio"] # "effects"]_vars

\* The place of a stage in the fixed order.
Rank(stage) == CHOOSE k \in 1..Len(Stages) : Stages[k] = stage

MaxFree == 3
MaxSamples == 90

\* The sample values an element is fed.
Samples == {-One, 0, One \div 2, One}

\* The values written to the store key osc1_frequency: the default, zero, a
\* negative one, one above the sample rate and one above twice the sample rate.
Frequencies == {440, 0, -440, 50000, 100000}

\* e with its mix and two of its parameters set.
Tuned(e, mix, name1, value1, name2, value2) ==
    [e EXCEPT !.Mix = mix,
              !.Parameters = [@ EXCEPT ![name1] = value1, ![name2] = value2]]

BenchEffects ==
    {Tuned(NewEffect("Delay"), One, "time", 1, "feedback", One \div 2),
     NewEffect("Chorus"),
     Tuned([NewEffect("Chorus") EXCEPT !.Parameters["delay"] = 101],
           One \div 2, "rate", 33075 * One, "depth", 10)}
    \cup {Tuned(NewEffect("BitCrusher"), One, "bits", b * One, "sampleRate", r) :
             b \in {1, 8}, r \in {One \div 2, One, 2 * One}}

\* The elements driven and the store each is driven with.
BenchUnits ==
    {[oscillators |-> <<NewOscillator("Sine", 440, One)>>, filters |-> <<>>,
      effects |-> <<>>, params |-> MapPut(EmptyMap, "osc1_frequency", f)] :
        f \in Frequencies}
    \cup {[oscillators |-> <<>>, filters |-> <<f>>, effects |-> <<>>,
           params |-> EmptyMap] :
             f \in {NewLowPassFilter(1000, (7 * One) \div 10),
                    NewHighPassFilter(5000, One)}}
    \cup {[oscillators |-> <<>>, filters |-> <<>>, effects |-> <<e>>,
           params |-> EmptyMap] : e \in BenchEffects}

BenchInit ==
    /\ \E u \in BenchUnits :
          /\ oscillators = u.oscillators
          /\ filters = u.filters
          /\ effects = u.effects
          /\ params = u.params
    /\ isRunning = 0
    /\ stream = 0
    /\ pa = [inits |-> 0, terms |-> 0, streams |-> <<>>]
    /\ out = [ch \in 1..Channels |-> <<>>]
    /\ lastCall = NoCall
    /\ callbacks = 0
    /\ atomicParams = NewParameterManager.atomicParams
    /\ smoothing = NewParameterManager.smoothing
    /\ mu = NewRWMutex
    /\ smoothingMu = NewRWMutex
    /\ pc = [t \in Threads |-> "idle"]
    /\ local = [t \in Threads |-> Idle]
    /\ calls = [t \in Threads |-> 0]
    /\ fed = <<>>
    /\ heard = <<>>

\* The samples the element may be handed next.
NextSamples == IF Len(fed) < MaxFree THEN Samples ELSE {0}

\* What driving an element leaves alone.
BenchIdle ==
    UNCHANGED <<isRunning, stream, pa, out, lastCall, callbacks, storeVars, threadVars>>

\* osc.Generate(buffer, params) on a buffer of one sample
BenchGenerate ==
    /\ oscillators # <<>>
    /\ Len(heard) < MaxSamples
    /\ \E g \in {Generate(oscillators[1], 1, params)} :
          /\ oscillators' = <<g.osc>>
          /\ heard' = heard \o g.buffer
    /\ UNCHANGED <<fed, filters, effects>>
    /\ BenchIdle

\* filter.Process(buffer, params) on the buffer <<x>>
BenchFilter(x) ==
    /\ filters # <<>>
    /\ Len(fed) < MaxSamples
    /\ \E r \in {FilterProcess(filters[1], <<x>>, params)} :
          /\ filters' = <<r.filter>>
          /\ heard' = heard \o r.buffer
    /\ fed' = Append(fed, x)
    /\ UNCHANGED <<oscillators, effects>>
    /\ BenchIdle

\* effect.Process(buffer, params) on the buffer <<x>>
BenchEffect(x) ==
    /\ effects # <<>>
    /\ Len(fed) < MaxSamples
    /\ \E r \in {EffectProcess(effects[1], <<x>>)} :
          /\ effects' = <<r.effect>>
          /\ heard' = heard \o r.buffer
    /\ fed' = Append(fed, x)
    /\ UNCHANGED <<oscillators, filters>>
    /\ BenchIdle

BenchNext ==
    \/ BenchGenerate
    \/ \E x \in NextSamples : BenchFilter(x)
    \/ \E x \in NextSamples : BenchEffect(x)

BenchSpec == BenchInit /\ [][BenchNext]_vars

(***************************************************************************)
(* Properties of the chain elements                                        *)
(***************************************************************************)
\* The values a sequence of samples takes.
Range(samples) == {samples[k] : k \in DOMAIN samples}

\* C15: after every sample generated by Oscillator.Generate the phase lies in
\* [0, 2*pi), for every frequency written to osc1_frequency.
C15_PhaseInCanonicalRange ==
    \A i \in DOMAIN oscillators :
        0 <= oscillators[i].Phase /\ oscillators[i].Phase < TwoPi

\* C16: Filter.Process clamps each output to [-1, 1] before it becomes the y1
\* history: after every sample y1 and y2 lie in [-1, 1] and are the last two
\* values written to the buffer.
C16_FilterHistoryClamped ==
    \A i \in DOMAIN filters :
        /\ -One <= filters[i].y1 /\ filters[i].y1 <= One
        /\ -One <= filters[i].y2 /\ filters[i].y2 <= One
        /\ Len(heard) >= 1 => filters[i].y1 = heard[Len(heard)]
        /\ Len(heard) >= 2 => filters[i].y2 = heard[Len(heard) - 1]

\* f to the power k, each product rounded as the effect rounds it.
RECURSIVE Power(_, _)
Power(f, k) == IF k = 0 THEN One ELSE Mul(Power(f, k - 1), f)

\* The element has been fed a unit impulse followed by zeros.
Impulse ==
    /\ Len(fed) >= 1
    /\ fed[1] = One
    /\ \A k \in 2..Len(fed) : fed[k] = 0

\* C17: a Delay effect with mix = 1, feedback f and a delay of D >= 1 samples,
\* fed a unit impulse followed by zeros over any number of Process calls,
\* returns f^k at sample D*k, for each k >= 1, and zero at every sample that
\* is not a multiple of D (samples are counted from 0).
C17_DelayImpulseResponse ==
    \A i \in DOMAIN effects :
        (/\ effects[i].Type = "Delay"
         /\ effects[i].Mix = One
         /\ DelaySamples(effects[i]) >= 1
         /\ Impulse)
           => \A n \in 1..(Len(heard) - 1) :
                 heard[n + 1] =
                    IF n % DelaySamples(effects[i]) = 0
                    THEN Power(effects[i].Parameters["feedback"],
                               n \div DelaySamples(effects[i]))
                    ELSE 0

\* C18: the Chorus passes a sample through unmodified exactly when the integer
\* part of the modulated delay is at least the length of the delay line: the
\* sample is returned as it came and the line and its index are untouched.
\* For every smaller delay the sample is written to the line and the index
\* advances by one.
C18_ChorusPassThroughAtLength ==
    [][\A x \in Samples :
          (BenchEffect(x) /\ effects[1].Type = "Chorus")
             => IF TruncDiv(ChorusDelay(effects[1]), One) >= effects[1].lineLen
                THEN /\ heard' = Append(heard, x)
                     /\ effects'[1].delayLine = effects[1].delayLine
                     /\ effects'[1].delayIndex = effects[1].delayIndex
                ELSE /\ LineAt(effects'[1].delayLine, effects[1].delayIndex) = x
                     /\ effects'[1].delayIndex
                           = (effects[1].delayIndex + 1) % effects[1].lineLen]_vars

\* C19: in the Bit-crusher, for every positive sample-rate reduction factor,
\* the countdown holdCount is never negative and is back at zero within
\* holdPeriod samples of each refresh, so the held value is refreshed again.
C19_HoldCountReturnsToZero ==
    \A i \in DOMAIN effects :
        (effects[i].Type = "BitCrusher" /\ effects[i].Parameters["sampleRate"] > 0)
           => /\ effects[i].holdCount >= 0
              /\ effects[i].holdCount < HoldPeriod(effects[i])
                 \/ effects[i].holdCount = 0

\* C20: a Bit-crusher with bits = b and mix = 1, over an input that takes both
\* -1 and 1, returns at most 2^b distinct values.
C20_AtMostTwoToTheBitsValues ==
    \A i \in DOMAIN effects :
        (/\ effects[i].Type = "BitCrusher"
         /\ effects[i].Mix = One
         /\ {-One, One} \subseteq Range(fed))
           => Cardinality(Range(heard)) <= Levels(effects[i])

(***************************************************************************)
(* The store called by two threads of which either may call any method     *)
(***************************************************************************)
\* The calls a thread makes to the store before it stops calling.
MaxThreadCalls == 2

\* The methods that take a lock, with the arguments the control thread and
\* the audio thread give them.
LockingCalls ==
    ControlCalls
    \cup {call \in AudioCalls : call.op \in {"GetSmoothed", "Get", "GetAll"}}

\* Thread t calls a method.
Invoke(t, call) ==
    /\ pc[t] = "idle"
    /\ calls[t] < MaxThreadCalls
    /\ pc' = [pc EXCEPT ![t] = FirstStep(call.op)]
    /\ local' = [local EXCEPT ![t] = call]
    /\ calls' = [calls EXCEPT ![t] = @ + 1]
    /\ UNCHANGED <<engineVars, lastCall, callbacks, benchVars, storeVars, mu,
                   smoothingMu>>

\* The step thread t is to take inside the method it is running.
StoreStep(t) ==
    \/ LockMu(t)
    \/ AcquireMu(t)
    \/ RegisterInstall(t)
    \/ SetRLock(t)
    \/ SetTargetStep(t)
    \/ SetActiveStep(t)
    \/ SetRUnlock(t)
    \/ UnlockMu(t)
    \/ BatchLoop(t)
    \/ LockSmoothingMu(t)
    \/ AcquireSmoothingMu(t)
    \/ GetRLock(t)
    \/ GetRUnlock(t)
    \/ EnableInstall(t)
    \/ UnlockSmoothingMu(t)
    \/ SmoothedRLock(t)
    \/ SmoothedAdvance(t)
    \/ SmoothedCompare(t)
    \/ SmoothedSnap(t)
    \/ SmoothedOff(t)
    \/ SmoothedRUnlock(t)

AnyThreadNext ==
    \E t \in Threads :
        \/ \E call \in LockingCalls : Invoke(t, call)
        \/ LockMu(t)
        \/ AcquireMu(t)
        \/ RegisterInstall(t)
        \/ SetRLock(t)
        \/ SetTargetStep(t)
        \/ SetActiveStep(t)
        \/ SetRUnlock(t)
        \/ UnlockMu(t)
        \/ BatchLoop(t)
        \/ LockSmoothingMu(t)
        \/ AcquireSmoothingMu(t)
        \/ GetRLock(t)
        \/ GetRUnlock(t)
        \/ EnableInstall(t)
        \/ UnlockSmoothingMu(t)
        \/ SmoothedRLock(t)
        \/ SmoothedAdvance(t)
        \/ SmoothedCompare(t)
        \/ SmoothedSnap(t)
        \/ SmoothedOff(t)
        \/ SmoothedRUnlock(t)

AnyThreadSpec == Init /\ [][AnyThreadNext]_vars

\* Thread t is inside a method and the lock operation it stands at cannot
\* return.
Blocked(t) == pc[t] # "idle" /\ ~ENABLED StoreStep(t)

\* C21: the parameter store is deadlock-free.  Under any interleaving of Set,
\* BatchSet, Get, GetAll, GetSmoothed, EnableSmoothing and RegisterAtomic
\* called from different threads, every call eventually returns: whenever a
\* thread is inside a call, some thread inside a call can take its next step
\* (the threads are never all waiting for one another).
C21_StoreDeadlockFree ==
    (\E t \in Threads : pc[t] # "idle") => (\E t \in Threads : ~Blocked(t) /\ pc[t] # "idle")

(***************************************************************************)
(* GetAtomic on the audio thread against RegisterAtomic on the control     *)
(* thread                                                                  *)
(***************************************************************************)
\* The values the control thread's RegisterAtomic, Set and BatchSet store
\* under key.
StoredFor(key) ==
    {call.arg : call \in {c \in ControlCalls :
                             c.op \in {"Set", "RegisterAtomic"} /\ c.key = key}}
    \cup {call.arg[key] : call \in {c \in ControlCalls :
                                       c.op = "BatchSet" /\ key \in DOMAIN c.arg}}

\* Thread t has returned from GetAtomic.
ReturnedFromGetAtomic(t) == pc[t] = "idle" /\ local[t].op = "GetAtomic"

\* C22: GetAtomic is safe against concurrent registration.  GetAtomic(key) on
\* the audio thread never reads the slot table while RegisterAtomic on the
\* control thread is modifying it, the program survives the read, and what
\* GetAtomic returns is (0, false) or a value that RegisterAtomic, Set or
\* BatchSet stored for that key.
C22_GetAtomicSafeAgainstRegistration ==
    /\ ~RacingLookup("audio")
    /\ pc # Crashed
    /\ ReturnedFromGetAtomic("audio") =>
          \/ ~local["audio"].ok /\ local["audio"].val = 0
          \/ local["audio"].ok /\ local["audio"].val \in StoredFor(local["audio"].key)

====
